---- MODULE Spec2Model ----
(***************************************************************************)
(* NBVD co-clustering (src/nbvd.py): construction of NBVD_coclustering,    *)
(* i.e. __post_init__ -> do_things -> attempt_coclustering ->              *)
(* attempt_coclustering_aux, with the labelling of every attempt.          *)
(*                                                                         *)
(* numpy float64 arithmetic is modelled by a miniature binary floating     *)
(* point format with the same structure as IEEE-754: MantBits significant  *)
(* bits, round-to-nearest-even after every operation, gradual underflow    *)
(* (the smallest step is 2^-FracBits), overflow to +inf/-inf, and NaN for  *)
(* 0/0, inf-inf, inf*0 and inf/inf.  A finite value x is held as the       *)
(* integer x * 2^FracBits.                                                 *)
(***************************************************************************)
EXTENDS Integers, Sequences, FiniteSets, TLC

(* ------------------------------ bounds -------------------------------- *)
FracBits == 7
MantBits == 5
MaxIter == 3
MaxAttempts == 2
MaxK == 2

(* ------------------------- miniature float64 -------------------------- *)
RECURSIVE Pow2(_)
Pow2(e) == IF e = 0 THEN 1 ELSE 2 * Pow2(e - 1)

One == Pow2(FracBits)
Half == One \div 2
Quarter == One \div 4
\* TLC integers are 32 bits wide: magnitudes stay below 2^15 so that the
\* exact product of two of them is representable before it is rounded.
Limit == Pow2(15)
PInf == Limit
NInf == 0 - Limit
NaN == Limit + 1

IsNaN(x) == x = NaN
IsInf(x) == x = PInf \/ x = NInf
IsFin(x) == x > NInf /\ x < PInf

Abs(x) == IF x < 0 THEN 0 - x ELSE x
Sgn(x) == IF x > 0 THEN 1 ELSE IF x < 0 THEN 0 - 1 ELSE 0

\* magnitudes below 2^MantBits units are held exactly
MantRange == Pow2(MantBits)
\* the spacing of representable values around a magnitude fl (in units)
RECURSIVE QuantumFrom(_, _)
QuantumFrom(fl, q) == IF fl >= MantRange * q THEN QuantumFrom(fl, 2 * q) ELSE q
Quantum(fl) == QuantumFrom(fl, 1)

\* N/D (N >= 0, D > 0) rounded to the nearest representable value, ties to
\* even; PInf when the rounded value is out of range
Saturate(r) == IF r >= Limit THEN PInf ELSE r
RoundUp(rem, DD, m) == (2 * rem > DD) \/ (2 * rem = DD /\ m % 2 = 1)
RoundTo(N, DD, m, q) == Saturate((IF RoundUp(N - m * DD, DD, m) THEN m + 1 ELSE m) * q)
RoundWith(N, D, q) == RoundTo(N, D * q, N \div (D * q), q)
RoundDiv(N, D) == RoundWith(N, D, Quantum(N \div D))

FNeg(x) == IF IsNaN(x) THEN NaN ELSE 0 - x

Signed(s, mag) == IF s >= 0 THEN mag ELSE 0 - mag

FAdd(a, b) ==
    IF IsNaN(a) \/ IsNaN(b) THEN NaN
    ELSE IF IsInf(a) /\ IsInf(b) THEN (IF a = b THEN a ELSE NaN)
    ELSE IF IsInf(a) THEN a
    ELSE IF IsInf(b) THEN b
    ELSE Signed(Sgn(a + b), RoundDiv(Abs(a + b), 1))

FSub(a, b) == FAdd(a, FNeg(b))

FMul(a, b) ==
    IF IsNaN(a) \/ IsNaN(b) THEN NaN
    ELSE IF IsInf(a) \/ IsInf(b)
         THEN (IF Sgn(a) * Sgn(b) = 0 THEN NaN
               ELSE IF Sgn(a) * Sgn(b) > 0 THEN PInf ELSE NInf)
    ELSE Signed(Sgn(a) * Sgn(b), RoundDiv(Abs(a) * Abs(b), One))

FDiv(a, b) ==
    IF IsNaN(a) \/ IsNaN(b) THEN NaN
    ELSE IF IsInf(a)
         THEN (IF IsInf(b) THEN NaN
               ELSE IF Sgn(a) * (IF b >= 0 THEN 1 ELSE 0 - 1) > 0 THEN PInf ELSE NInf)
    ELSE IF IsInf(b) THEN 0
    ELSE IF b = 0
         THEN (IF a = 0 THEN NaN ELSE IF a > 0 THEN PInf ELSE NInf)
    ELSE Signed(Sgn(a) * Sgn(b), RoundDiv(Abs(a) * One, Abs(b)))

RECURSIVE ISqrtBetween(_, _, _)
ISqrtBetween(x, lo, hi) ==
    IF hi - lo <= 1 THEN lo
    ELSE LET mid == (lo + hi) \div 2
         IN IF mid * mid <= x THEN ISqrtBetween(x, mid, hi)
            ELSE ISqrtBetween(x, lo, mid)
ISqrt(x) == ISqrtBetween(x, 0, 4096)

SqrtTo(X, m, q) == IF 4 * X > (2 * m + 1) * (2 * m + 1) * q * q THEN (m + 1) * q ELSE m * q
SqrtWith(X, fl, q) == SqrtTo(X, fl \div q, q)
SqrtOf(X, fl) == SqrtWith(X, fl, Quantum(fl))
\* the square root, correctly rounded
FSqrt(a) ==
    IF IsNaN(a) \/ a < 0 THEN NaN
    ELSE IF a = PInf THEN PInf
    ELSE SqrtOf(a * One, ISqrt(a * One))

\* IEEE comparisons: every comparison with NaN is false
FLe(a, b) == ~IsNaN(a) /\ ~IsNaN(b) /\ a <= b
FGt(a, b) == ~IsNaN(a) /\ ~IsNaN(b) /\ a > b
FGe(a, b) == ~IsNaN(a) /\ ~IsNaN(b) /\ a >= b

FromInt(n) == n * One

(* ------------------------------ ndarrays ------------------------------ *)
\* A 2-d array is [nr, nc, d]: its shape and its elements in row-major
\* order.  ShapeErr is the outcome of an operation numpy rejects with a
\* ValueError because the operand shapes do not fit.
ShapeErr == [nr |-> 0 - 1, nc |-> 0 - 1, d |-> <<>>]
IsErr(A) == A.nr < 0

\* the elements are computed once, when the array is built
Arr(nr, nc, f) == [nr |-> nr, nc |-> nc, d |-> f \o <<>>]
At(A, i, j) == A.d[(i - 1) * A.nc + j]
RowOf(p, nc) == ((p - 1) \div nc) + 1
ColOf(p, nc) == ((p - 1) % nc) + 1

Full(nr, nc, v) == Arr(nr, nc, [p \in 1..(nr * nc) |-> v])
OnesM(nr, nc) == Full(nr, nc, One)

\* A.T
Transpose(A) ==
    IF IsErr(A) THEN ShapeErr
    ELSE Arr(A.nc, A.nr, [p \in 1..(A.nr * A.nc) |-> At(A, ColOf(p, A.nr), RowOf(p, A.nr))])

\* the dot product of row i of A and column j of B, accumulated left to right
RECURSIVE DotFrom(_, _, _, _, _, _)
DotFrom(A, B, i, j, c, acc) ==
    IF c > A.nc THEN acc
    ELSE DotFrom(A, B, i, j, c + 1, FAdd(acc, FMul(At(A, i, c), At(B, c, j))))

\* A @ B
MatMul(A, B) ==
    IF IsErr(A) \/ IsErr(B) THEN ShapeErr
    ELSE IF A.nc # B.nr THEN ShapeErr
    ELSE Arr(A.nr, B.nc,
             [p \in 1..(A.nr * B.nc) |-> DotFrom(A, B, RowOf(p, B.nc), ColOf(p, B.nc), 1, 0)])

MatMul3(A, B, C) == MatMul(MatMul(A, B), C)
MatMul4(A, B, C, D) == MatMul(MatMul3(A, B, C), D)
MatMul5(A, B, C, D, E) == MatMul(MatMul4(A, B, C, D), E)

\* numpy broadcasting of two 2-d shapes along one axis (-1: incompatible)
BDim(a, b) == IF a = b THEN a ELSE IF a = 1 THEN b ELSE IF b = 1 THEN a ELSE 0 - 1
BIdx(n, i) == IF n = 1 THEN 1 ELSE i

\* elementwise A op B with broadcasting
BAt(A, p, nc) == At(A, BIdx(A.nr, RowOf(p, nc)), BIdx(A.nc, ColOf(p, nc)))
ApplyOp(op, a, b) ==
    IF op = "*" THEN FMul(a, b)
    ELSE IF op = "/" THEN FDiv(a, b)
    ELSE IF op = "-" THEN FSub(a, b)
    ELSE a = b
EwShaped(op, A, B, nr, nc) ==
    IF nr < 0 \/ nc < 0 THEN ShapeErr
    ELSE Arr(nr, nc, [p \in 1..(nr * nc) |-> ApplyOp(op, BAt(A, p, nc), BAt(B, p, nc))])
Ew(op, A, B) ==
    IF IsErr(A) \/ IsErr(B) THEN ShapeErr
    ELSE EwShaped(op, A, B, BDim(A.nr, B.nr), BDim(A.nc, B.nc))

EwMul(A, B) == Ew("*", A, B)
EwDiv(A, B) == Ew("/", A, B)
EwSub(A, B) == Ew("-", A, B)
\* A == B on arrays of integers
EwEq(A, B) == Ew("==", A, B)

\* the value stored by T[:,:] = X into an array of shape (nr, nc)
AssignInto(nr, nc, X) ==
    IF IsErr(X) THEN ShapeErr
    ELSE IF (X.nr # nr /\ X.nr # 1) \/ (X.nc # nc /\ X.nc # 1) THEN ShapeErr
    ELSE Arr(nr, nc, [p \in 1..(nr * nc) |-> BAt(X, p, nc)])

RECURSIVE SumFrom(_, _, _)
SumFrom(d, p, acc) == IF p > Len(d) THEN acc ELSE SumFrom(d, p + 1, FAdd(acc, d[p]))
\* np.sum(A)
SumAll(A) == SumFrom(A.d, 1, 0)
\* A.mean()
MeanAll(A) == FDiv(SumAll(A), FromInt(A.nr * A.nc))

RECURSIVE SumSqFrom(_, _, _)
SumSqFrom(d, p, acc) ==
    IF p > Len(d) THEN acc ELSE SumSqFrom(d, p + 1, FAdd(acc, FMul(d[p], d[p])))
\* numpy.linalg.norm(A): the Frobenius norm
FroNorm(A) == FSqrt(SumSqFrom(A.d, 1, 0))

(* -------------------- array objects and references -------------------- *)
\* The heap holds the array objects; an array reference names the object
\* whose memory it reads and writes, and whether it is the transposed view
\* of that memory (R.T is a view of R, not a copy).
Ref(id, t) == [id |-> id, t |-> t]
ViewT(r) == Ref(r.id, ~r.t)
Deref(h, r) == IF r.t THEN Transpose(h[r.id]) ELSE h[r.id]

\* r[:,:] = X: writes X into the memory r refers to; ok is FALSE when numpy
\* raises (X is a shape error, or X cannot be broadcast to r's shape)
StoreValue(h, r, v) ==
    IF IsErr(v) THEN [ok |-> FALSE, h |-> h]
    ELSE [ok |-> TRUE, h |-> [h EXCEPT ![r.id] = IF r.t THEN Transpose(v) ELSE v]]
StoreInto(h, r, tgt, X) == StoreValue(h, r, AssignInto(tgt.nr, tgt.nc, X))
Store(h, r, X) == StoreInto(h, r, Deref(h, r), X)

(* ------------------- NBVD_coclustering: update engine ----------------- *)
\* whether some entry of a denominator array is exactly zero
HasZero(A) == \E p \in 1..Len(A.d) : A.d[p] = 0
\* whether some entry of an operand array is inf or NaN
HasNonFinite(A) == \E p \in 1..Len(A.d) : ~IsFin(A.d[p])

\* R * (Z@C.T@B.T) / (R@B@C@C.T@B.T)
NumR(Z, R, B, C) == EwMul(R, MatMul3(Z, Transpose(C), Transpose(B)))
DenR(Z, R, B, C) == MatMul5(R, B, C, Transpose(C), Transpose(B))
\* B * (R.T@Z@C.T) / (R.T@R@B@C@C.T)
NumB(Z, R, B, C) == EwMul(B, MatMul3(Transpose(R), Z, Transpose(C)))
DenB(Z, R, B, C) == MatMul5(Transpose(R), R, B, C, Transpose(C))
\* C * (B.T@R.T@Z) / (B.T@R.T@R@B@C)
NumC(Z, R, B, C) == EwMul(C, MatMul3(Transpose(B), Transpose(R), Z))
DenC(Z, R, B, C) == MatMul5(Transpose(B), Transpose(R), R, B, C)
\* S * (Z@S@B) / (S@B@S.T@S@B)
NumS(Z, S, B) == EwMul(S, MatMul3(Z, S, B))
DenS(Z, S, B) == MatMul5(S, B, Transpose(S), S, B)
\* B * (S.T@Z@S) / (S.T@S@B@S.T@S)
NumBSym(Z, S, B) == EwMul(B, MatMul3(Transpose(S), Z, S))
DenBSym(Z, S, B) == MatMul5(Transpose(S), S, B, Transpose(S), S)

\* what the statements of an update met so far: dz, a denominator entry
\* that is exactly zero; nf, a numerator or denominator entry that is inf or
\* NaN
NoFlags == [dz |-> FALSE, nf |-> FALSE]
Flags(g, num, den) ==
    [dz |-> g.dz \/ HasZero(den), nf |-> g.nf \/ HasNonFinite(num) \/ HasNonFinite(den)]

\* an additive step T[:,:] = T * num - den in place of the quotient
StatementAdditive(h, target, num, den, line, g) ==
    [ok |-> Store(h, target, EwSub(num, den)).ok, h |-> Store(h, target, EwSub(num, den)).h,
     line |-> line, g |-> Flags(g, num, den)]
\* one statement T[:,:] = T * num / den of the update: the heap it leaves,
\* whether it completed, the source line, and the flags
Stored(st, line, g) == [ok |-> st.ok, h |-> st.h, line |-> line, g |-> g]
Statement(h, target, num, den, line, g) ==
    Stored(Store(h, target, EwDiv(num, den)), line, Flags(g, num, den))

\* line 143
UpdateR(h, r, g, Zv, Rv, Bv, Cv) ==
    Statement(h, r, NumR(Zv, Rv, Bv, Cv), DenR(Zv, Rv, Bv, Cv), 143, g)
\* line 144
UpdateB(h, b, g, Zv, Rv, Bv, Cv) ==
    Statement(h, b, NumB(Zv, Rv, Bv, Cv), DenB(Zv, Rv, Bv, Cv), 144, g)
\* line 145
UpdateC(h, c, g, Zv, Rv, Bv, Cv) ==
    Statement(h, c, NumC(Zv, Rv, Bv, Cv), DenC(Zv, Rv, Bv, Cv), 145, g)
\* line 148
UpdateS(h, r, g, Zv, Sv, Bv) ==
    Statement(h, r, NumS(Zv, Sv, Bv), DenS(Zv, Sv, Bv), 148, g)
\* line 149
UpdateBSym(h, b, g, Zv, Sv, Bv) ==
    Statement(h, b, NumBSym(Zv, Sv, Bv), DenBSym(Zv, Sv, Bv), 149, g)

\* attempt_coclustering_aux(Z,R,B,C, symmetric): the statements run in
\* order, each reading the arrays as the statements before it left them; a
\* statement that raises ends the update
ThenC(s, z, r, b, c) ==
    IF ~s.ok THEN s
    ELSE UpdateC(s.h, c, s.g, Deref(s.h, z), Deref(s.h, r), Deref(s.h, b), Deref(s.h, c))
ThenB(s, z, r, b, c) ==
    IF ~s.ok THEN s
    ELSE UpdateB(s.h, b, s.g, Deref(s.h, z), Deref(s.h, r), Deref(s.h, b), Deref(s.h, c))
\* an update whose three statements all read the arrays as they were before
\* the step
SimultaneousC(s, c, Zv, Rv, Bv, Cv) == IF ~s.ok THEN s ELSE UpdateC(s.h, c, s.g, Zv, Rv, Bv, Cv)
SimultaneousB(s, b, Zv, Rv, Bv, Cv) == IF ~s.ok THEN s ELSE UpdateB(s.h, b, s.g, Zv, Rv, Bv, Cv)
AuxSimultaneous(h, z, r, b, c) ==
    SimultaneousC(SimultaneousB(UpdateR(h, r, NoFlags, Deref(h, z), Deref(h, r), Deref(h, b),
                                        Deref(h, c)),
                                b, Deref(h, z), Deref(h, r), Deref(h, b), Deref(h, c)),
                  c, Deref(h, z), Deref(h, r), Deref(h, b), Deref(h, c))
\* an update that first scales Z in place so that its entries sum to one
AuxScalingZ(h, z, r, b, c) ==
    ThenC(ThenB(UpdateR(Store(h, z, EwDiv(Deref(h, z), Full(1, 1, SumAll(Deref(h, z))))).h,
                        r, NoFlags, Deref(h, z), Deref(h, r), Deref(h, b), Deref(h, c)),
                z, r, b, c),
          z, r, b, c)
AuxAsym(h, z, r, b, c) ==
    ThenC(ThenB(UpdateR(h, r, NoFlags, Deref(h, z), Deref(h, r), Deref(h, b), Deref(h, c)),
                z, r, b, c),
          z, r, b, c)

ThenBSym(s, z, r, b) ==
    IF ~s.ok THEN s
    ELSE UpdateBSym(s.h, b, s.g, Deref(s.h, z), Deref(s.h, r), Deref(s.h, b))
AuxSym(h, z, r, b, c) ==
    ThenBSym(UpdateS(h, r, NoFlags, Deref(h, z), Deref(h, r), Deref(h, b)), z, r, b)

attempt_coclustering_aux(h, z, r, b, c, symmetric) ==
    IF ~symmetric THEN AuxAsym(h, z, r, b, c) ELSE AuxSym(h, z, r, b, c)

\* norm(R@B@C - Z)
ReconNorm(h, z, r, b, c) ==
    FroNorm(EwSub(MatMul3(Deref(h, r), Deref(h, b), Deref(h, c)), Deref(h, z)))

(* ------------------- NBVD_coclustering: labelling --------------------- *)
\* diag = lambda M : np.diag(np.diag(M)): the square matrix holding the main
\* diagonal of M (min(nr, nc) entries) and zeros elsewhere
Diag(M) ==
    IF IsErr(M) THEN ShapeErr
    ELSE LET dd == IF M.nr < M.nc THEN M.nr ELSE M.nc
         IN Arr(dd, dd, [p \in 1..(dd * dd) |->
                           IF RowOf(p, dd) = ColOf(p, dd)
                           THEN At(M, RowOf(p, dd), RowOf(p, dd)) ELSE 0])

\* B / xsum
DivScalar(A, x) == Arr(A.nr, A.nc, [p \in 1..(A.nr * A.nc) |-> FDiv(A.d[p], x)])

\* diag(np.ones(M.shape).T @ M): the column sums of M on a diagonal
ColSumDiag(M) == Diag(MatMul(Transpose(OnesM(M.nr, M.nc)), M))
\* U @ diag(S @ Dv @ np.ones(Dv.shape)), line 96
RowAdh(U, S, Dv) == MatMul(U, Diag(MatMul3(S, Dv, OnesM(Dv.nr, Dv.nc))))
\* V @ diag(np.ones(Du.shape).T @ Du @ S), line 97
ColAdh(V, S, Du) == MatMul(V, Diag(MatMul3(Transpose(OnesM(Du.nr, Du.nc)), Du, S)))

\* get_adherence(R, C, B, method="fancy"), lines 87-102: the pair
\* (row_adh, col_adh); a component is ShapeErr when numpy raises while
\* computing it
AdhPair(U, V, S, Du, Dv) == [row_adh |-> RowAdh(U, S, Dv), col_adh |-> ColAdh(V, S, Du)]
AdhOf(U, V, S) == AdhPair(U, V, S, ColSumDiag(U), ColSumDiag(V))
get_adherence(R, C, B) ==
    AdhOf(R, Transpose(C), DivScalar(B, SumAll(MatMul3(R, B, C))))

\* np.argmax of row i of A: the first NaN if there is one, else the first
\* maximum (0-based)
RECURSIVE ArgmaxFrom(_, _, _, _)
ArgmaxFrom(A, i, j, best) ==
    IF j > A.nc THEN best - 1
    ELSE IF IsNaN(At(A, i, best)) THEN best - 1
    ELSE IF IsNaN(At(A, i, j)) \/ At(A, i, j) > At(A, i, best)
         THEN ArgmaxFrom(A, i, j + 1, j)
    ELSE ArgmaxFrom(A, i, j + 1, best)
\* an argmax that counts the columns from 1
ArgmaxRowsOneBased(A) == [i \in 1..A.nr |-> ArgmaxFrom(A, i, 2, 1) + 1] \o <<>>
\* np.argmax(A, axis=1), for A with at least one column
ArgmaxRows(A) == [i \in 1..A.nr |-> ArgmaxFrom(A, i, 2, 1)] \o <<>>

LabelErr(line) == [ok |-> FALSE, line |-> line, row |-> <<>>, col |-> <<>>, bic |-> <<>>]
\* get_labels_bicluster, lines 119-121, given the adherence pair: row and
\* column labels, or the ValueError numpy raises (shapes that do not fit in
\* get_adherence, argmax over an empty axis)
LabelsOf(adh) ==
    IF IsErr(adh.row_adh) THEN LabelErr(96)
    ELSE IF IsErr(adh.col_adh) THEN LabelErr(97)
    ELSE IF adh.row_adh.nc = 0 THEN LabelErr(120)
    ELSE IF adh.col_adh.nc = 0 THEN LabelErr(121)
    ELSE [ok |-> TRUE, line |-> 0,
          row |-> ArgmaxRows(adh.row_adh), col |-> ArgmaxRows(adh.col_adh), bic |-> <<>>]

\* lines 123-126 and 132: bic_rows.T, where bic_rows is j_idx == row_mod
\* for the (n, k) arrays j_idx[i, j] = j and row_mod[i, j] = row[i]
BicRows(row, n, k) ==
    Transpose(EwEq(Arr(n, k, [p \in 1..(n * k) |-> ColOf(p, k) - 1]),
                   Arr(n, k, [p \in 1..(n * k) |-> row[RowOf(p, k)]])))
\* lines 128-132: bic_cols.T, where bic_cols is i_idx.T == col_mod for the
\* (m, l) array i_idx.T[j, i] = i and the (m, k) array col_mod[j, i] = col[j]
BicCols(col, m, k, l) ==
    Transpose(EwEq(Arr(m, l, [p \in 1..(m * l) |-> ColOf(p, l) - 1]),
                   Arr(m, k, [p \in 1..(m * k) |-> col[RowOf(p, k)]])))
\* lines 123-133, given the labels: the returned (bic, row, col); the
\* comparison of line 131 raises when its operands cannot be broadcast
WithMasks(lab, bic_rows, bic_cols) ==
    IF IsErr(bic_cols) THEN LabelErr(131)
    ELSE [ok |-> TRUE, line |-> 0, row |-> lab.row, col |-> lab.col,
          bic |-> <<bic_rows, bic_cols>>]
Masked(lab, n, k, l, m) ==
    IF ~lab.ok THEN lab ELSE WithMasks(lab, BicRows(lab.row, n, k), BicCols(lab.col, m, k, l))
\* get_labels_bicluster(R, C, B, method="fancy"), lines 108-133
get_labels_bicluster(R, C, B) ==
    Masked(LabelsOf(get_adherence(R, C, B)), R.nr, R.nc, C.nr, C.nc)

(* ---------------- NBVD_coclustering: derived artifacts ---------------- *)
\* the pair in the order (R @ B, (B @ C).T)
BasisOfColumnsFirst(R, B, C) == <<MatMul(R, B), Transpose(MatMul(B, C))>>
\* get_basis_vectors, lines 59-61: the returned pair (row_basis, col_basis)
get_basis_vectors(R, B, C) == <<Transpose(MatMul(B, C)), MatMul(R, B)>>

\* the sum of row i of A from column j on, accumulated left to right
RECURSIVE RowSumFrom(_, _, _, _)
RowSumFrom(A, i, j, acc) ==
    IF j > A.nc THEN acc ELSE RowSumFrom(A, i, j + 1, FAdd(acc, At(A, i, j)))
\* np.average(B, axis=1)[i]
RowAvg(A, i) == FDiv(RowSumFrom(A, i, 1, 0), FromInt(A.nc))
\* a comparison B > B_row_avg in place of >=
StrictAssoc(B) ==
    Arr(B.nr, B.nc, [p \in 1..(B.nr * B.nc) |-> FGt(B.d[p], RowAvg(B, RowOf(p, B.nc)))])
\* get_cluster_assoc, lines 137-139: B >= its row averages
get_cluster_assoc(B) ==
    Arr(B.nr, B.nc, [p \in 1..(B.nr * B.nc) |-> FGe(B.d[p], RowAvg(B, RowOf(p, B.nc)))])

(* ------------------------- external libraries ------------------------ *)
\* numpy.random.default_rng(seed): a seeded generator is a fixed stream of
\* values in [0,1) and a position in it.
RngStream(seed) ==
    IF seed = 1 THEN <<3 * Quarter, 3 * Quarter, Half, 3 * Quarter, Half>>
    ELSE IF seed = 2 THEN <<3 * Quarter, 3 * Quarter, 3 * Quarter, Quarter, 0>>
    ELSE <<Quarter, 0, Half, 0, 3 * Quarter>>
Seeds == {1, 2, 3}
RngAt(seed, pos) == RngStream(seed)[(pos % Len(RngStream(seed))) + 1]
\* rng.random((nr, nc)): the next nr*nc values of the stream, row-major
RngRandom(seed, pos, nr, nc) == Arr(nr, nc, [p \in 1..(nr * nc) |-> RngAt(seed, pos + p - 1)])

\* sklearn.metrics.silhouette_score(X, labels): raises ValueError unless
\* 2 <= number of distinct labels <= n_samples - 1; otherwise a fixed but
\* unknown function of (X, labels) with values in [-1, 1].
SeqRange(q) == {q[i] : i \in 1..Len(q)}
SilhouetteDefined(labels) ==
    /\ Cardinality(SeqRange(labels)) >= 2
    /\ Cardinality(SeqRange(labels)) <= Len(labels) - 1
SilScores == {0, Half}

(* ------------------------------ my_utils ------------------------------ *)
RECURSIVE SeqSumFrom(_, _, _)
SeqSumFrom(q, p, acc) == IF p > Len(q) THEN acc ELSE SeqSumFrom(q, p + 1, FAdd(acc, q[p]))
\* MeanTuple: a tuple of scores ordered by the arithmetic mean of its
\* components
MeanOf(t) == FDiv(SeqSumFrom(t, 1, 0), FromInt(Len(t)))
MeanTupleGt(a, b) == FGt(MeanOf(a), MeanOf(b))

\* get_centroids_by_cluster(X, labels, n_clusters): column c is the mean of
\* the rows of X labelled c
RECURSIVE GroupSumFrom(_, _, _, _, _, _)
GroupSumFrom(X, labels, c, j, i, acc) ==
    IF i > X.nr THEN acc
    ELSE GroupSumFrom(X, labels, c, j, i + 1,
                      IF labels[i] = c THEN FAdd(acc, At(X, i, j)) ELSE acc)
GroupSize(labels, c) == Cardinality({i \in 1..Len(labels) : labels[i] = c})
get_centroids_by_cluster(X, labels, n_clusters) ==
    Arr(X.nc, n_clusters,
        [p \in 1..(X.nc * n_clusters) |->
            FDiv(GroupSumFrom(X, labels, ColOf(p, n_clusters) - 1, RowOf(p, n_clusters), 1, 0),
                 FromInt(GroupSize(labels, ColOf(p, n_clusters) - 1)))])

(* ------------------------------- inputs ------------------------------- *)
ZAsym == [nr |-> 3, nc |-> 3, d |-> <<One, Half, 0,  0, One, Half,  Half, 0, One>>]
ZWide == [nr |-> 2, nc |-> 3, d |-> <<One, 0, Half,  0, One, Half>>]
ZBig == [nr |-> 3, nc |-> 3, d |-> <<64 * One, 0, 0,  0, 64 * One, 0,  0, 0, 64 * One>>]
ZNeg == [nr |-> 3, nc |-> 3, d |-> <<One, 0 - Half, 0,  0, One, Half,  Half, 0, One>>]
DataChoices == {ZAsym, ZWide, ZBig, ZNeg}
\* a matrix with more rows than columns, large enough to be clustered
ZTall == [nr |-> 4, nc |-> 3, d |-> <<One, Half, 0,  0, One, Half,  Half, 0, One,  One, 0, 0>>]

(* ------------------------------- state -------------------------------- *)
VARIABLES
    self,           \* the NBVD_coclustering object: attribute name -> value
    heap,           \* the array objects
    lists,          \* the list and deque objects (the history buffers)
    rng,            \* position of the generator in its stream
    pc,             \* where construction stands
    err,            \* the exception that ended construction, if any
    dt,             \* locals of do_things
    ac,             \* locals of attempt_coclustering
    norm_trace,     \* the norms computed so far in the current attempt
    den_zero,       \* an update of the current attempt divided by an exact zero
    non_finite,     \* an update of the current attempt met an inf or NaN operand
    attempts_log,   \* what each finished attempt returned and how it scored
    sil_memo,       \* silhouette_score on the arguments it has been called with
    call,           \* a direct call of one of the static methods: name and arguments
    ret,            \* what that call returned or raised
    prior,          \* how an earlier construction from the same arguments ended
    th              \* the locals of the attempts, when they run interleaved

vars == <<self, heap, lists, rng, pc, err, dt, ac, norm_trace, den_zero, non_finite, attempts_log,
          sil_memo, call, ret, prior, th>>

\* no direct call is made while the constructor runs
NoCall == [fn |-> "none"]
NoRet == [status |-> "none"]
\* there was no earlier construction
NoPrior == [pc |-> "none"]

NoRef == Ref(0, FALSE)
NoErr == [type |-> "none", line |-> 0]
Raise(type, line) == [type |-> type, line |-> line]

\* a slot that starts at a mean silhouette of zero: best_sil = MeanTuple(0)
DtInitAtZero == [attempt_no |-> 0, best_norm |-> PInf, best_results |-> <<>>, best_iter |-> 0,
                 best_sil |-> <<0>>, R |-> NoRef, B |-> NoRef, C |-> NoRef]
\* do_things, line 176
DtInit == [attempt_no |-> 0, best_norm |-> PInf, best_results |-> <<>>, best_iter |-> 0,
           best_sil |-> <<NInf>>, R |-> NoRef, B |-> NoRef, C |-> NoRef]
\* attempt_coclustering, line 152
AcInit == [i |-> 0, previous_norm |-> PInf, current_norm |-> PInf]

\* the object as the generated __init__ leaves it: the init arguments are
\* set, the post-init fields are not; the caller's matrix is array 1
\* for the given choices of matrix, cluster counts and the two history flags
InitWith(datas, counts, flags) ==
    /\ \E data \in datas, k \in counts, l \in counts,
          symmetric \in BOOLEAN, iter_max \in 0..MaxIter,
          n_attempts \in 0..MaxAttempts, seed \in Seeds, save \in flags :
          /\ heap = <<data>>
          /\ self = [data |-> Ref(1, FALSE), n_row_clusters |-> k, n_col_clusters |-> l,
                     symmetric |-> symmetric, iter_max |-> iter_max,
                     n_attempts |-> n_attempts, random_state |-> seed,
                     save_history |-> save[1], save_norm_history |-> save[2]]
    /\ lists = <<>>
    /\ rng = 0
    /\ pc = "post_init"
    /\ err = NoErr
    /\ dt = DtInit
    /\ ac = AcInit
    /\ norm_trace = <<>>
    /\ den_zero = FALSE
    /\ non_finite = FALSE
    /\ attempts_log = <<>>
    /\ sil_memo = <<>>
    /\ call = NoCall
    /\ ret = NoRet
    /\ prior = NoPrior
    /\ th = <<>>

\* construction with the history flags at their default, False
Init == InitWith(DataChoices, (0 - 1)..MaxK, {<<FALSE, FALSE>>})

Alloc(h, A) == Append(h, A)
Z == Deref(heap, self.Z)
ShapeN == Deref(heap, self.Z).nr
ShapeM == Deref(heap, self.Z).nc

\* the object with the attributes of `more` set
SetAttrs(obj, more) ==
    [a \in DOMAIN obj \cup DOMAIN more |-> IF a \in DOMAIN more THEN more[a] ELSE obj[a]]

\* one generator shared by all constructions, never seeded again
SharedGenerator(seed) == rng
\* line 221, default_rng(seed=self.random_state): a new generator at the
\* start of the stream of its seed
default_rng(seed) == 0

\* a check that compares the cluster counts instead of the matrix shape
ClusterCountCheck(obj, data) == obj.symmetric /\ obj.n_row_clusters # obj.n_col_clusters
\* __post_init__, lines 227-229: symmetric mode on a matrix that is not square
SymmetricNonSquare(obj, data) == obj.symmetric /\ data.nr # data.nc

\* __post_init__, lines 219-230: the generator, the copy of the data, the
\* symmetric-mode check; do_things is entered at line 231 (lines 174-176)
PostInit ==
    /\ UNCHANGED <<call, ret, prior, th, lists>>
    /\ pc = "post_init"
    /\ heap' = Alloc(heap, heap[self.data.id])
    /\ rng' = default_rng(self.random_state)
    /\ self' = SetAttrs(self, [data |-> Ref(Len(heap) + 1, FALSE), Z |-> Ref(Len(heap) + 1, FALSE)])
    /\ IF SymmetricNonSquare(self, heap[self.data.id])
       THEN /\ pc' = "raised"
            /\ err' = Raise("Exception", 230)
       ELSE /\ pc' = "while_attempts"
            /\ err' = err
    /\ dt' = DtInit
    /\ UNCHANGED <<ac, norm_trace, den_zero, non_finite, attempts_log, sil_memo>>

\* an attempt after the first refills the arrays of the attempt before it
AllocatedInPlace(Rnew, Bnew, Cnew, idR) ==
    IF dt.attempt_no = 0
    THEN /\ heap' = heap \o (IF self.symmetric THEN <<Rnew, Bnew>> ELSE <<Rnew, Bnew, Cnew>>)
         /\ rng' = rng + Len(Rnew.d) + (IF self.symmetric THEN 0 ELSE Len(Cnew.d))
         /\ dt' = [dt EXCEPT !.R = Ref(idR, FALSE), !.B = Ref(idR + 1, FALSE),
                             !.C = IF self.symmetric THEN Ref(idR, TRUE)
                                                     ELSE Ref(idR + 2, FALSE)]
    ELSE /\ heap' = [id \in DOMAIN heap |->
                        IF id = dt.R.id THEN Rnew
                        ELSE IF id = dt.B.id THEN Bnew
                        ELSE IF id = dt.C.id /\ ~self.symmetric THEN Cnew
                        ELSE heap[id]]
         /\ rng' = rng + Len(Rnew.d) + (IF self.symmetric THEN 0 ELSE Len(Cnew.d))
         /\ dt' = dt
\* C = R.T.copy(): in symmetric mode C is an array of its own
AllocatedCopy(Rnew, Bnew, Cnew, idR) ==
    /\ heap' = heap \o <<Rnew, Bnew, IF self.symmetric THEN Transpose(Rnew) ELSE Cnew>>
    /\ rng' = rng + Len(Rnew.d) + (IF self.symmetric THEN 0 ELSE Len(Cnew.d))
    /\ dt' = [dt EXCEPT !.R = Ref(idR, FALSE), !.B = Ref(idR + 1, FALSE),
                        !.C = Ref(idR + 2, FALSE)]
\* lines 181 / 183-184: the arrays the attempt starts from are new objects;
\* in symmetric mode C is the transposed view of R
Allocated(Rnew, Bnew, Cnew, idR) ==
    IF ~self.symmetric
    THEN /\ heap' = heap \o <<Rnew, Bnew, Cnew>>
         /\ rng' = rng + Len(Rnew.d) + Len(Cnew.d)
         /\ dt' = [dt EXCEPT !.R = Ref(idR, FALSE), !.B = Ref(idR + 1, FALSE),
                             !.C = Ref(idR + 2, FALSE)]
    ELSE /\ heap' = heap \o <<Rnew, Bnew>>
         /\ rng' = rng + Len(Rnew.d)
         /\ dt' = [dt EXCEPT !.R = Ref(idR, FALSE), !.B = Ref(idR + 1, FALSE),
                             !.C = Ref(idR, TRUE)]

AttrOr(obj, name, default) == IF name \in DOMAIN obj THEN obj[name] ELSE default

\* a buffer that the next attempt empties and uses again
ClearedBuffer(ls, old, content) ==
    IF old = 0
    THEN [ref |-> Len(ls) + 1, lists |-> Append(ls, content)]
    ELSE [ref |-> old, lists |-> [ls EXCEPT ![old] = content]]
\* lines 155 and 157: [] and deque() are new objects; old is the value the
\* attribute held before (0 when unset), which the assignment drops
NewBuffer(ls, old, content) == [ref |-> Len(ls) + 1, lists |-> Append(ls, content)]

\* the assignment of the new buffer to the attribute
StartedAs(obj, name, b) == [self |-> SetAttrs(obj, name :> b.ref), lists |-> b.lists]
\* lines 154-155
NormHistoryStarted(obj, ls) ==
    IF obj.save_norm_history
    THEN StartedAs(obj, "current_norm_history",
                   NewBuffer(ls, AttrOr(obj, "current_norm_history", 0), <<>>))
    ELSE [self |-> obj, lists |-> ls]
\* lines 156-158
FactorHistoryStarted(o, snap) ==
    IF o.self.save_history
    THEN StartedAs(o.self, "current_history",
                   NewBuffer(o.lists, AttrOr(o.self, "current_history", 0), <<snap>>))
    ELSE o
\* lines 154-158
HistoryStarted(obj, ls, snap) == FactorHistoryStarted(NormHistoryStarted(obj, ls), snap)

\* (R.copy(), B.copy(), C.copy()), lines 158 and 168
Copies(h, d) == <<Deref(h, d.R), Deref(h, d.B), Deref(h, d.C)>>

\* list.append / deque.append
Appended(ls, ref, x) == [ls EXCEPT ![ref] = Append(@, x)]
\* lines 165-166
RecordedNorm(obj, ls, nrm) ==
    IF obj.save_norm_history THEN Appended(ls, obj.current_norm_history, nrm) ELSE ls
\* append((R, B, C)) without the copies: every entry of the buffer names the
\* live arrays and so shows their current values
RecordedAliases(obj, ls, snap) ==
    IF obj.save_history
    THEN [ls EXCEPT ![obj.current_history] = [j \in 1..(Len(@) + 1) |-> snap]]
    ELSE ls
\* lines 167-168
RecordedFactors(obj, ls, snap) ==
    IF obj.save_history THEN Appended(ls, obj.current_history, snap) ELSE ls

\* the two assignments of lines 154-158 take effect
Recording(o) ==
    /\ self' = o.self
    /\ lists' = o.lists

\* do_things, lines 178-189: the loop test, the fresh factors of the attempt
\* and the entry into attempt_coclustering (lines 152-158)
InitFactors ==
    /\ UNCHANGED <<call, ret, prior, th>>
    /\ pc = "while_attempts"
    /\ dt.attempt_no < self.n_attempts
    /\ IF self.n_row_clusters < 0 \/ self.n_col_clusters < 0
       THEN \* rng.random / np.ones reject a negative dimension
            /\ pc' = "raised"
            /\ err' = Raise("ValueError", IF self.symmetric THEN 183 ELSE 181)
            /\ UNCHANGED <<self, lists, heap, rng, dt, ac, norm_trace, den_zero, non_finite>>
       ELSE /\ Allocated(RngRandom(self.random_state, rng, ShapeN, self.n_row_clusters),
                         EwMul(Full(1, 1, MeanAll(Z)),
                               OnesM(self.n_row_clusters, self.n_col_clusters)),
                         RngRandom(self.random_state, rng + ShapeN * self.n_row_clusters,
                                   self.n_col_clusters, ShapeM),
                         Len(heap) + 1)
            /\ ac' = AcInit
            /\ norm_trace' = <<>>
            /\ den_zero' = FALSE
            /\ non_finite' = FALSE
            /\ pc' = "while_iter"
            /\ err' = err
            /\ Recording(HistoryStarted(self, lists, Copies(heap', dt')))
    /\ UNCHANGED <<attempts_log, sil_memo>>

\* a loop that makes one more pass than iter_max allows
LoopCondInclusive(i, iter_max, current_norm, previous_norm) ==
    i = 0 \/ (i <= iter_max /\ FLe(current_norm, previous_norm))
\* a loop that tests its bounds before the first pass
LoopCondNoFirstPass(i, iter_max, current_norm, previous_norm) ==
    i < iter_max /\ FLe(current_norm, previous_norm)
\* a loop that runs to iter_max whatever the norms
LoopCondIgnoringNorm(i, iter_max, current_norm, previous_norm) ==
    i = 0 \/ i < iter_max
\* attempt_coclustering, line 160: the loop condition
LoopCond(i, iter_max, current_norm, previous_norm) ==
    i = 0 \/ (i < iter_max /\ FLe(current_norm, previous_norm))

\* an attempt that keeps the least norm it has seen
AdvanceKeepingLeast(nrm) ==
    /\ ac' = [i |-> ac.i + 1, previous_norm |-> ac.current_norm,
              current_norm |-> IF FLe(ac.current_norm, nrm) THEN ac.current_norm ELSE nrm]
    /\ norm_trace' = Append(norm_trace, nrm)
    /\ UNCHANGED <<pc, err>>
\* lines 163-169, for the norm computed at line 164
Advance(nrm) ==
    /\ ac' = [i |-> ac.i + 1, previous_norm |-> ac.current_norm, current_norm |-> nrm]
    /\ norm_trace' = Append(norm_trace, nrm)
    /\ UNCHANGED <<pc, err>>

\* lines 161-169, for the outcome u of attempt_coclustering_aux
Iterated(u) ==
    /\ heap' = u.h
    /\ den_zero' = (den_zero \/ u.g.dz)
    /\ non_finite' = (non_finite \/ u.g.nf)
    /\ IF ~u.ok
       THEN /\ pc' = "raised"
            /\ err' = Raise("ValueError", u.line)
            /\ UNCHANGED <<ac, norm_trace>>
       ELSE Advance(ReconNorm(u.h, self.Z, dt.R, dt.B, dt.C))

\* attempt_coclustering, lines 160-169: one pass of the loop body
Iterate ==
    /\ UNCHANGED <<call, ret, prior, th>>
    /\ pc = "while_iter"
    /\ LoopCond(ac.i, self.iter_max, ac.current_norm, ac.previous_norm)
    /\ Iterated(attempt_coclustering_aux(heap, self.Z, dt.R, dt.B, dt.C, self.symmetric))
    /\ lists' = IF pc' = "raised"
                THEN lists
                ELSE RecordedFactors(self, RecordedNorm(self, lists, ac'.current_norm),
                                     Copies(heap', dt))
    /\ UNCHANGED <<self, rng, dt, attempts_log, sil_memo>>

\* attempt_coclustering, lines 160 and 171: the loop ends and the attempt
\* returns ((R, B, C), current_norm, i) to do_things (line 189)
ExitLoop ==
    /\ UNCHANGED <<call, ret, prior, th, lists>>
    /\ pc = "while_iter"
    /\ ~LoopCond(ac.i, self.iter_max, ac.current_norm, ac.previous_norm)
    /\ pc' = "scoring"
    /\ UNCHANGED <<self, heap, rng, err, dt, ac, norm_trace, den_zero, non_finite, attempts_log, sil_memo>>

SilKnown(memo, key) == \E i \in 1..Len(memo) : memo[i].key = key
SilValue(memo, key) == (CHOOSE i \in 1..Len(memo) : memo[i].key = key)
\* the values silhouette_score may return for these arguments: the value it
\* returned before for the same arguments, else any score
SilChoices(memo, key) ==
    IF SilKnown(memo, key) THEN {memo[SilValue(memo, key)].val} ELSE SilScores
Memoize(memo, key, val) ==
    IF SilKnown(memo, key) THEN memo ELSE Append(memo, [key |-> key, val |-> val])

\* a comparison that lets an equal score replace the retained best
IsBestOrEqual(silhouette, best_sil) == FGe(MeanOf(silhouette), MeanOf(best_sil))
\* do_things, line 204: the attempt's score beats the retained best
IsBest(silhouette, best_sil) == MeanTupleGt(silhouette, best_sil)

\* a slot whose norm is the least norm seen, not the retained attempt's
RetainLeastNorm(d, results, current_norm, iter_stop, silhouette) ==
    [d EXCEPT !.best_results = results,
              !.best_norm = IF FLe(current_norm, d.best_norm) THEN current_norm ELSE d.best_norm,
              !.best_iter = iter_stop, !.best_sil = silhouette]
\* do_things, line 211: the best-so-far slot takes the attempt's results
Retain(d, results, current_norm, iter_stop, silhouette) ==
    [d EXCEPT !.best_results = results, !.best_norm = current_norm,
              !.best_iter = iter_stop, !.best_sil = silhouette]

\* what the attempt returned, with the values its arrays hold on return
LogEntry(results, current_norm, iter_stop, silhouette) ==
    [results |-> results, norm |-> current_norm, iter |-> iter_stop, sil |-> silhouette,
     R |-> Deref(heap, results[1]), B |-> Deref(heap, results[2]),
     C |-> Deref(heap, results[3]),
     history |-> IF self.save_history THEN lists[self.current_history] ELSE <<>>,
     norm_history |-> norm_trace]

\* do_things, lines 204-211: the best-so-far slot after the comparison
Selected(d, results, current_norm, iter_stop, silhouette) ==
    IF IsBest(silhouette, d.best_sil)
    THEN Retain(d, results, current_norm, iter_stop, silhouette)
    ELSE d

\* lines 207-208
KeptHistory(obj) ==
    IF obj.save_history THEN SetAttrs(obj, [best_history |-> obj.current_history]) ELSE obj
\* lines 209-210
KeptNormHistory(obj) ==
    IF obj.save_norm_history
    THEN SetAttrs(obj, [norm_history |-> obj.current_norm_history])
    ELSE obj
\* lines 204-210, for the outcome of the comparison
Kept(obj, is_best) == IF is_best THEN KeptNormHistory(KeptHistory(obj)) ELSE obj

\* do_things, lines 200-212, for the scores sil_row and sil_col
Compare(sil_row, sil_col, memo) ==
    /\ self' = Kept(self, IsBest(<<sil_row, sil_col>>, dt.best_sil))
    /\ dt' = [Selected(dt, <<dt.R, dt.B, dt.C>>, ac.current_norm, ac.i, <<sil_row, sil_col>>)
                EXCEPT !.attempt_no = dt.attempt_no + 1]
    /\ attempts_log' = Append(attempts_log,
                              LogEntry(<<dt.R, dt.B, dt.C>>, ac.current_norm, ac.i,
                                       <<sil_row, sil_col>>))
    /\ sil_memo' = memo
    /\ pc' = "while_attempts"
    /\ err' = err

\* line 199 and on, for the row score and the memo that holds it
ScoreCols(lab, sil_row, memo, ckey) ==
    IF ~SilhouetteDefined(lab.col)
    THEN /\ pc' = "raised"
         /\ err' = Raise("ValueError", 199)
         /\ sil_memo' = memo
         /\ UNCHANGED <<self, dt, attempts_log>>
    ELSE \E sil_col \in SilChoices(memo, ckey) :
           Compare(sil_row, sil_col, Memoize(memo, ckey, sil_col))

\* lines 197-212, for the outcome lab of get_labels_bicluster
Scored(lab) ==
    IF ~lab.ok
    THEN /\ pc' = "raised"
         /\ err' = Raise("ValueError", lab.line)
         /\ UNCHANGED <<self, dt, attempts_log, sil_memo>>
    ELSE IF ~SilhouetteDefined(lab.row)
    THEN /\ pc' = "raised"
         /\ err' = Raise("ValueError", 198)
         /\ UNCHANGED <<self, dt, attempts_log, sil_memo>>
    ELSE \E sil_row \in SilChoices(sil_memo, <<"rows", lab.row>>) :
           ScoreCols(lab, sil_row, Memoize(sil_memo, <<"rows", lab.row>>, sil_row),
                     <<"cols", lab.col>>)

\* do_things, lines 196-212: labels of the attempt, its two silhouette
\* scores, and the comparison with the best so far
Score ==
    /\ UNCHANGED <<call, ret, prior, th, lists>>
    /\ pc = "scoring"
    /\ Scored(get_labels_bicluster(Deref(heap, dt.R), Deref(heap, dt.C), Deref(heap, dt.B)))
    /\ UNCHANGED <<heap, rng, ac, norm_trace, den_zero, non_finite>>

\* do_things, lines 178 and 215-216: all attempts ran; best_norm and
\* best_iter are set on the object and best_results is returned
Return ==
    /\ UNCHANGED <<call, ret, prior, th, lists>>
    /\ pc = "while_attempts"
    /\ ~(dt.attempt_no < self.n_attempts)
    /\ self' = SetAttrs(self, [best_norm |-> dt.best_norm, best_iter |-> dt.best_iter])
    /\ pc' = "returned"
    /\ UNCHANGED <<heap, rng, err, dt, ac, norm_trace, den_zero, non_finite, attempts_log, sil_memo>>

\* line 231 (and 233): self.R, self.B, self.C = results
Unpacked(obj, rbc) ==
    IF obj.symmetric
    THEN SetAttrs(obj, [R |-> rbc[1], B |-> rbc[2], C |-> rbc[3], S |-> rbc[1]])
    ELSE SetAttrs(obj, [R |-> rbc[1], B |-> rbc[2], C |-> rbc[3]])

\* line 235
WithBasis(obj, R, B, C) == SetAttrs(obj, [basis_vectors |-> get_basis_vectors(R, B, C)])

\* column centroids taken from Z instead of Z.T
CentroidsWithoutTranspose(data, row_labels, col_labels, n_row_clusters, n_col_clusters) ==
    <<get_centroids_by_cluster(data, row_labels, n_row_clusters),
      get_centroids_by_cluster(data, col_labels, n_col_clusters)>>
\* get_centroids, lines 63-68: the pair (row_centroids, col_centroids)
get_centroids(data, row_labels, col_labels, n_row_clusters, n_col_clusters) ==
    <<get_centroids_by_cluster(data, row_labels, n_row_clusters),
      get_centroids_by_cluster(Transpose(data), col_labels, n_col_clusters)>>

\* lines 236-244, for the outcome lab of get_labels_bicluster
Labelled(obj, lab, B, data) ==
    IF ~lab.ok
    THEN /\ pc' = "raised"
         /\ err' = Raise("ValueError", lab.line)
         /\ self' = obj
    ELSE /\ pc' = "done"
         /\ err' = err
         /\ self' = SetAttrs(obj, [biclusters_ |-> lab.bic, row_labels_ |-> lab.row,
                                   column_labels_ |-> lab.col,
                                   cluster_assoc |-> get_cluster_assoc(B),
                                   centroids |-> get_centroids(data, lab.row, lab.col,
                                                               obj.n_row_clusters,
                                                               obj.n_col_clusters)])

\* __post_init__, lines 231-244: the returned factors are unpacked into
\* R, B, C (S in symmetric mode) and the basis vectors, the labels and
\* masks, the cluster association and the centroids are derived from them
Finish ==
    /\ UNCHANGED <<call, ret, prior, th, lists>>
    /\ pc = "returned"
    /\ IF dt.best_results = <<>>
       THEN \* self.R, self.B, self.C = None
            /\ pc' = "raised"
            /\ err' = Raise("TypeError", 231)
            /\ self' = self
       ELSE Labelled(WithBasis(Unpacked(self, dt.best_results),
                               Deref(heap, dt.best_results[1]),
                               Deref(heap, dt.best_results[2]),
                               Deref(heap, dt.best_results[3])),
                     get_labels_bicluster(Deref(heap, dt.best_results[1]),
                                          Deref(heap, dt.best_results[3]),
                                          Deref(heap, dt.best_results[2])),
                     Deref(heap, dt.best_results[2]),
                     Deref(heap, self.data))
    /\ UNCHANGED <<heap, rng, dt, ac, norm_trace, den_zero, non_finite, attempts_log, sil_memo>>

(* ------------------------ a second construction ---------------------- *)
\* TwinSpec constructs the model twice from the same arguments: when the
\* first construction has ended, what it exposed is kept in prior and a new
\* object is constructed from the caller's matrix and the same init
\* arguments.  silhouette_score is the same function in both.
InitFields == {"data", "n_row_clusters", "n_col_clusters", "symmetric", "iter_max",
               "n_attempts", "random_state", "save_history", "save_norm_history"}

\* what a construction that ended exposes: the values of the factors, the
\* labels, the centroids, best_norm and best_iter, or the exception
Snapshot ==
    IF pc = "done"
    THEN [pc |-> pc, err |-> err, R |-> Deref(heap, self.R), B |-> Deref(heap, self.B),
          C |-> Deref(heap, self.C), row_labels_ |-> self.row_labels_,
          column_labels_ |-> self.column_labels_, centroids |-> self.centroids,
          best_norm |-> self.best_norm, best_iter |-> self.best_iter]
    ELSE [pc |-> pc, err |-> err]

TwinInit ==
    /\ Init
    /\ self.n_row_clusters >= 1
    /\ self.n_col_clusters >= 1

\* NBVD_coclustering(data, k, l, ...) once more, with the arguments of the
\* construction that ended
Again ==
    /\ pc \in {"done", "raised"}
    /\ prior = NoPrior
    /\ prior' = Snapshot
    /\ heap' = <<heap[1]>>
    /\ self' = [a \in InitFields |-> IF a = "data" THEN Ref(1, FALSE) ELSE self[a]]
    /\ pc' = "post_init"
    /\ err' = NoErr
    /\ dt' = DtInit
    /\ ac' = AcInit
    /\ norm_trace' = <<>>
    /\ den_zero' = FALSE
    /\ non_finite' = FALSE
    /\ attempts_log' = <<>>
    /\ lists' = <<>>
    /\ UNCHANGED <<rng, sil_memo, call, ret, th>>

(* ------------------ direct calls of the static methods ---------------- *)
\* The methods of NBVD_coclustering that take no self are functions of their
\* arguments and are also called on their own.  CallSpec applies each of
\* them once to arguments drawn from bounded sets: pc is "call" before the
\* call and "ret" after it.
Methods == {"fancy", "rbc", "centroids"}

\* factors of the shapes (n, k), (k, l), (l, m) for a matrix of shape (n, m)
FactorArgs(data, k, l, seed) ==
    [Z |-> data, R |-> RngRandom(seed, 0, data.nr, k), B |-> Full(k, l, Half),
     C |-> RngRandom(seed, data.nr * k, l, data.nc),
     centroids |-> <<Full(data.nc, k, Half), Full(data.nr, l, Half)>>]

\* the default of the parameter B (line 104)
None == [none |-> TRUE]
\* the call with B given, or left at its default
BArgs(a) == {a, [a EXCEPT !.B = None]}
LabelCalls ==
    {[fn |-> "get_labels_bicluster", method |-> method, args |-> a] :
        method \in Methods,
        a \in UNION {BArgs(FactorArgs(data, k, l, seed)) :
                       data \in {ZAsym, ZWide}, k \in 1..MaxK, l \in 1..MaxK, seed \in Seeds}}

\* block-value matrices of 1 or 2 rows: entries that are equal, that differ
\* by one unit in the last place, whose sum overflows, or that are NaN
Ulp == One \div Pow2(MantBits - 1)
Huge == Limit \div 2
BlockValues == {0, One, One + Ulp, Huge, NaN}
BlockMatricesOf(k, l) == {Arr(k, l, d) : d \in [1..(k * l) -> BlockValues]}
BlockMatrices == UNION {BlockMatricesOf(k, l) : k \in 1..2, l \in 1..MaxK}
AssocCalls ==
    {[fn |-> "get_cluster_assoc", method |-> "none", args |-> [B |-> B]] : B \in BlockMatrices}

CallInit ==
    /\ call \in LabelCalls \cup AssocCalls
    /\ ret = NoRet
    /\ pc = "call"
    /\ heap = <<>>
    /\ lists = <<>>
    /\ self = [data |-> NoRef]
    /\ rng = 0
    /\ err = NoErr
    /\ dt = DtInit
    /\ ac = AcInit
    /\ norm_trace = <<>>
    /\ den_zero = FALSE
    /\ non_finite = FALSE
    /\ attempts_log = <<>>
    /\ sil_memo = <<>>
    /\ prior = NoPrior
    /\ th = <<>>

Returned(value) == [status |-> "returned", value |-> value]
Raised(type, line) == [status |-> "raised", type |-> type, line |-> line]

\* get_adherence(R, C, B, method=method), lines 76-102
AdherenceFor(method, R, C, B) ==
    IF method = "rbc" THEN [row_adh |-> R, col_adh |-> Transpose(C)]
    ELSE get_adherence(R, C, B)

\* sklearn.metrics.pairwise_distances_argmin(X, centers): for each of the n
\* rows of X the index of one of the centers
NearestChoices(n, n_centers) == [1..n -> 0..(n_centers - 1)]
\* the label vectors that lines 116-117 can produce; the other methods do
\* not call get_labels_new_data
NearestFor(method, n, n_centers) ==
    IF method = "centroids" THEN NearestChoices(n, n_centers) ELSE {<<>>}

\* get_adherence, lines 80-83: the fancy method was asked for without B
MissingB(method, B) == method = "fancy" /\ B = None

\* labels that take a matrix of ones for a B that was not given
LabelsForDefaultB(method, a, near_row, near_col) ==
    IF method = "centroids"
    THEN [ok |-> TRUE, line |-> 0, row |-> near_row, col |-> near_col, bic |-> <<>>]
    ELSE LabelsOf(AdherenceFor(method, a.R, a.C,
                               IF a.B = None THEN OnesM(a.R.nc, a.C.nr) ELSE a.B))
\* get_labels_bicluster, lines 111-121: the labels by the method, where
\* near_row and near_col are what get_labels_new_data returned
LabelsFor(method, a, near_row, near_col) ==
    IF method = "centroids"
    THEN [ok |-> TRUE, line |-> 0, row |-> near_row, col |-> near_col, bic |-> <<>>]
    ELSE IF MissingB(method, a.B) THEN LabelErr(83)
    ELSE LabelsOf(AdherenceFor(method, a.R, a.C, a.B))

\* lines 108-109 and 113-114: n, k, l, m as the method leaves them
DimsFor(method, a) ==
    IF method = "centroids"
    THEN [n |-> a.centroids[2].nr, k |-> a.centroids[1].nc,
          l |-> a.centroids[2].nc, m |-> a.centroids[1].nr]
    ELSE [n |-> a.R.nr, k |-> a.R.nc, l |-> a.C.nr, m |-> a.C.nc]

\* np.where(False, True, False): a comparison of arrays whose shapes cannot
\* be broadcast gives the scalar False in numpy < 1.25 and raises from 1.25
ScalarFalse == [nr |-> 1, nc |-> 1, d |-> <<FALSE>>]
CompareOutcomes(lab, bic_rows) ==
    {Raised("ValueError", 131), Returned(<<<<bic_rows, ScalarFalse>>, lab.row, lab.col>>)}

\* line 83 raises Exception; the other lines raise numpy's ValueError
ErrorType(line) == IF line = 83 THEN "Exception" ELSE "ValueError"
\* lines 123-133: what the call returns or raises, given the labels
MaskOutcomes(lab, masked, d) ==
    IF ~lab.ok THEN {Raised(ErrorType(lab.line), lab.line)}
    ELSE IF ~masked.ok THEN CompareOutcomes(lab, BicRows(lab.row, d.n, d.k))
    ELSE {Returned(<<masked.bic, masked.row, masked.col>>)}
LabelOutcomes(lab, d) == MaskOutcomes(lab, Masked(lab, d.n, d.k, d.l, d.m), d)

\* NBVD_coclustering.get_labels_bicluster(R, C, B, Z, centroids, method)
LabelsCallFor(method, a, d) ==
    \E near_row \in NearestFor(method, d.n, d.k), near_col \in NearestFor(method, d.m, d.l) :
        ret' \in LabelOutcomes(LabelsFor(method, a, near_row, near_col), d)
LabelsCall ==
    /\ pc = "call"
    /\ call.fn = "get_labels_bicluster"
    /\ LabelsCallFor(call.method, call.args, DimsFor(call.method, call.args))
    /\ pc' = "ret"
    /\ UNCHANGED <<self, heap, lists, rng, err, dt, ac, norm_trace, den_zero, non_finite,
                   attempts_log, sil_memo, call, prior, th>>

\* NBVD_coclustering.get_cluster_assoc(R, B, C)
AssocCall ==
    /\ pc = "call"
    /\ call.fn = "get_cluster_assoc"
    /\ ret' = Returned(get_cluster_assoc(call.args.B))
    /\ pc' = "ret"
    /\ UNCHANGED <<self, heap, lists, rng, err, dt, ac, norm_trace, den_zero, non_finite,
                   attempts_log, sil_memo, call, prior, th>>

CallNext ==
    \/ LabelsCall
    \/ AssocCall

CallSpec == CallInit /\ [][CallNext]_vars

(* ------------------------------ properties ---------------------------- *)
NRows == heap[1].nr
NCols == heap[1].nc
HasFactors == dt.R # NoRef
NonNeg(A) == \A p \in 1..Len(A.d) : FGe(A.d[p], 0)
FactorsNonNeg ==
    /\ NonNeg(heap[dt.R.id])
    /\ NonNeg(heap[dt.B.id])
    /\ NonNeg(heap[dt.C.id])
\* the norm the loop condition compared the j-th norm of the attempt with
NormBefore(j) == IF j = 1 THEN PInf ELSE norm_trace[j - 1]
Attempts == 1..Len(attempts_log)
SilMean(a) == MeanOf(attempts_log[a].sil)
Exposed == {"R", "B", "C", "S", "row_labels_", "column_labels_", "cluster_assoc", "centroids",
            "basis_vectors", "biclusters_", "best_norm", "best_iter"}

\* C1: an attempt that returns has performed at least one update, whatever
\* iter_max is (also iter_max <= 0): the returned iteration count is >= 1 and
\* equals the number of updates applied, and at iteration 0 the loop is
\* entered without regard to iter_max or the norms.
C1_AtLeastOneUpdate ==
    /\ pc = "scoring" => (ac.i >= 1 /\ Len(norm_trace) = ac.i)
    /\ \A a \in Attempts : attempts_log[a].iter >= 1
    /\ (pc = "while_iter" /\ ac.i = 0) =>
          LoopCond(ac.i, self.iter_max, ac.current_norm, ac.previous_norm)
C1_Witness == pc = "scoring" /\ self.iter_max <= 0 /\ ac.i = 1

\* C2: in the sequence of norms of an attempt every norm except possibly the
\* last is <= the norm before it (the first is compared with +inf): no update
\* follows a norm increase.
C2_NoUpdateAfterIncrease ==
    \A j \in 1..(Len(norm_trace) - 1) : FLe(norm_trace[j], NormBefore(j))
C2_Witness ==
    /\ pc = "scoring"
    /\ ac.i >= 2
    /\ ac.i < self.iter_max
    /\ FGt(ac.current_norm, ac.previous_norm)

\* C3: once all attempts have run, the retained result is that of the
\* earliest attempt whose mean silhouette is maximal over all attempts.
C3_EarliestMaxMean ==
    (pc \in {"returned", "done"} /\ attempts_log # <<>>) =>
        \E a \in Attempts :
            /\ dt.best_results = attempts_log[a].results
            /\ \A b \in Attempts : ~FGt(SilMean(b), SilMean(a))
            /\ \A b \in 1..(a - 1) : FGt(SilMean(a), SilMean(b))
C3_Witness ==
    /\ pc = "done"
    /\ Len(attempts_log) >= 2
    /\ SilMean(1) = SilMean(2)
    /\ attempts_log[1].sil # attempts_log[2].sil
    /\ dt.best_results = attempts_log[1].results

\* C4: the best-so-far factors, norm, iteration count and silhouette are at
\* every point those of one and the same attempt (or the slot is still
\* empty), and the R, B, C, best_norm and best_iter exposed on the model are
\* the arrays, with the values, the norm and the count that one attempt
\* returned.
SlotEmpty ==
    /\ dt.best_results = <<>>
    /\ dt.best_norm = PInf
    /\ dt.best_iter = 0
    /\ dt.best_sil = <<NInf>>
SlotIs(a) ==
    /\ dt.best_results = attempts_log[a].results
    /\ dt.best_norm = attempts_log[a].norm
    /\ dt.best_iter = attempts_log[a].iter
    /\ dt.best_sil = attempts_log[a].sil
ModelIs(a) ==
    /\ <<self.R, self.B, self.C>> = attempts_log[a].results
    /\ Deref(heap, self.R) = attempts_log[a].R
    /\ Deref(heap, self.B) = attempts_log[a].B
    /\ Deref(heap, self.C) = attempts_log[a].C
    /\ self.best_norm = attempts_log[a].norm
    /\ self.best_iter = attempts_log[a].iter
C4_BestFromOneAttempt ==
    /\ SlotEmpty \/ \E a \in Attempts : SlotIs(a)
    /\ pc = "done" => \E a \in Attempts : ModelIs(a)
C4_Witness ==
    /\ pc = "done"
    /\ Len(attempts_log) >= 2
    /\ ModelIs(2)
    /\ FGt(attempts_log[2].norm, attempts_log[1].norm)

\* C5: when the labels of an attempt hold fewer than 2 distinct clusters the
\* error of the silhouette metric does not propagate out of the constructor.
C5_MetricErrorHandled == ~(pc = "raised" /\ err.line \in {198, 199})

\* C6: with symmetric=True and a non-square matrix the constructor raises
\* its configuration error before any attempt or update, and none of the
\* computed attributes is set.
C6_SymmetricNonSquareRejected ==
    (self.symmetric /\ NRows # NCols /\ pc # "post_init") =>
        /\ pc = "raised"
        /\ err = Raise("Exception", 230)
        /\ DOMAIN self \cap Exposed = {}
        /\ ~HasFactors
        /\ Len(heap) = 2
        /\ rng = 0
        /\ ac.i = 0
        /\ attempts_log = <<>>
C6_Witness == pc = "raised" /\ self.symmetric /\ NRows # NCols

\* C7: with k <= 0 or l <= 0 no factor is initialised and no update or
\* labelling is performed.
C7_NoComputationForBadCounts ==
    (self.n_row_clusters <= 0 \/ self.n_col_clusters <= 0) =>
        /\ ~HasFactors
        /\ ac.i = 0
        /\ pc # "scoring"

\* C8: with k # l the adherence labelling is rejected by a check of its
\* precondition: the adherence computation is not run on a non-square B, so
\* no error is raised from inside it.
C8_FancyRejectsNonSquareB ==
    (self.n_row_clusters # self.n_col_clusters) =>
        /\ pc # "scoring"
        /\ ~(pc = "raised" /\ err.line \in {96, 97})

\* C9 as stated: with a non-negative Z and no denominator entry exactly
\* zero, every entry of R, B and C is >= 0 after every update.
C9_NonNegUnlessZeroDen ==
    (HasFactors /\ NonNeg(Z) /\ ~den_zero) => FactorsNonNeg
\* C9, amended: with a non-negative Z, no denominator entry exactly zero and
\* no numerator or denominator entry overflowed to inf (or NaN), every entry
\* of R, B and C is >= 0 after every update.
C9_NonNegUnlessDegenerate ==
    (HasFactors /\ NonNeg(Z) /\ ~den_zero /\ ~non_finite) => FactorsNonNeg
C9_Witness ==
    /\ pc = "scoring"
    /\ ac.i >= 2
    /\ self.symmetric
    /\ NonNeg(Z)
    /\ ~den_zero
    /\ ~non_finite
    /\ \E p \in 1..Len(heap[dt.R.id].d) : heap[dt.R.id].d[p] > 0

\* C10: in symmetric mode C equals the transpose of R at initialisation and
\* after every update of every attempt, and in the factors exposed on the
\* model.
C10_SymmetricCIsRT ==
    /\ (self.symmetric /\ HasFactors) =>
          Deref(heap, dt.C) = Transpose(Deref(heap, dt.R))
    /\ (self.symmetric /\ dt.best_results # <<>>) =>
          Deref(heap, dt.best_results[3]) = Transpose(Deref(heap, dt.best_results[1]))
    /\ (self.symmetric /\ pc = "done") =>
          Deref(heap, self.C) = Transpose(Deref(heap, self.R))
C10_Witness ==
    /\ pc = "done"
    /\ self.symmetric
    /\ self.best_iter >= 2

\* C11: on a model whose construction completed, row_labels_ has length n
\* with every entry in [0, k) and column_labels_ has length m with every
\* entry in [0, l).
C11_LabelsInRange ==
    pc = "done" =>
        /\ Len(self.row_labels_) = NRows
        /\ \A i \in 1..Len(self.row_labels_) :
              self.row_labels_[i] \in 0..(self.n_row_clusters - 1)
        /\ Len(self.column_labels_) = NCols
        /\ \A j \in 1..Len(self.column_labels_) :
              self.column_labels_[j] \in 0..(self.n_col_clusters - 1)
C11_Witness ==
    /\ pc = "done"
    /\ self.n_row_clusters = 2
    /\ \E i \in 1..Len(self.row_labels_) : self.row_labels_[i] = 1
    /\ \E j \in 1..Len(self.column_labels_) : self.column_labels_[j] = 0

\* C12: for every k and l and every labelling method, whenever
\* get_labels_bicluster has derived the labels it returns them with a mask
\* pair in which the row mask is k x n with entry [c, i] true iff
\* row[i] = c and the column mask is l x m with entry [c, j] true iff
\* col[j] = c.
MaskOf(labels, n_clusters) ==
    Arr(n_clusters, Len(labels),
        [p \in 1..(n_clusters * Len(labels)) |->
            labels[ColOf(p, Len(labels))] = RowOf(p, Len(labels)) - 1])
C12_MasksFromLabels ==
    (pc = "ret" /\ call.fn = "get_labels_bicluster") =>
        /\ ret.status = "raised" => ret.line < 123
        /\ ret.status = "returned" =>
              /\ ret.value[1][1] = MaskOf(ret.value[2], call.args.R.nc)
              /\ ret.value[1][2] = MaskOf(ret.value[3], call.args.C.nr)

\* C13 as stated: get_cluster_assoc returns a k x l boolean matrix whose
\* entry (i, j) is true iff B[i, j] >= the arithmetic mean of row i of B
\* (the exact mean: l * B[i, j] >= the sum of the row; no entry is >= the
\* mean of a row that holds a NaN).
AssocReturned == pc = "ret" /\ call.fn = "get_cluster_assoc"
RowEntries(A, i) == {At(A, i, j) : j \in 1..A.nc}
RECURSIVE ExactRowSum(_, _, _)
ExactRowSum(A, i, j) == IF j > A.nc THEN 0 ELSE At(A, i, j) + ExactRowSum(A, i, j + 1)
AtLeastExactMean(A, i, j) ==
    /\ NaN \notin RowEntries(A, i)
    /\ A.nc * At(A, i, j) >= ExactRowSum(A, i, 1)
AssocShaped(A, B) ==
    /\ A.nr = B.nr
    /\ A.nc = B.nc
    /\ \A p \in 1..Len(A.d) : A.d[p] \in BOOLEAN
RowSeq(A, i) == [j \in 1..A.nc |-> At(A, i, j)]
FloatRowMean(A, i) == FDiv(SumFrom(RowSeq(A, i), 1, 0), FromInt(A.nc))
Members(labels, c) == {i \in 1..Len(labels) : labels[i] = c}
RECURSIVE ExactSumOver(_, _)
ExactSumOver(f, S) ==
    IF S = {} THEN 0
    ELSE LET i == CHOOSE x \in S : TRUE IN f[i] + ExactSumOver(f, S \ {i})
\* the mean of the values f[i], i in S: the sum, then the quotient, rounded
MeanOver(f, S) == FDiv(FAdd(ExactSumOver(f, S), 0), FromInt(Cardinality(S)))
ColumnOf(A, j) == [i \in 1..A.nr |-> At(A, i, j)]
C14_CentroidsAreGroupMeans ==
    pc = "done" =>
        /\ \A c \in 0..(self.n_row_clusters - 1), j \in 1..NCols :
              At(self.centroids[1], j, c + 1) =
                  MeanOver(ColumnOf(Deref(heap, self.data), j), Members(self.row_labels_, c))
        /\ \A c \in 0..(self.n_col_clusters - 1), i \in 1..NRows :
              At(self.centroids[2], i, c + 1) =
                  MeanOver(RowSeq(Deref(heap, self.data), i), Members(self.column_labels_, c))
C14_Witness ==
    /\ pc = "done"
    /\ heap[1] = ZAsym
    /\ \E c \in 0..(self.n_row_clusters - 1) : Cardinality(Members(self.row_labels_, c)) = 2
    /\ \E c \in 0..(self.n_col_clusters - 1) : Cardinality(Members(self.column_labels_, c)) = 2

\* C15: a second construction from the same Z, k, l, symmetric flag,
\* n_attempts, iter_max and seed ends as the first did: with the same values
\* of R, B, C, the same labels, centroids, best_norm and best_iter, or with
\* the same exception.
C15_SameSeedSameModel ==
    (prior # NoPrior /\ pc \in {"done", "raised"}) => Snapshot = prior
C15_Witness ==
    /\ prior # NoPrior
    /\ pc = "done"
    /\ self.n_attempts >= 2
    /\ self.best_iter >= 2
    /\ rng > 0

\* C16: with history retention enabled, best_history and norm_history are
\* at every moment the buffers that the retained best attempt recorded, with
\* the contents they had when that attempt returned; the attempts that ran
\* afterwards without becoming the best left them as they were
C16_RetainedBuffersOfBest ==
    \A a \in 1..Len(attempts_log) :
        dt.best_results = attempts_log[a].results =>
            /\ self.save_history =>
                  /\ "best_history" \in DOMAIN self
                  /\ lists[self.best_history] = attempts_log[a].history
            /\ self.save_norm_history =>
                  /\ "norm_history" \in DOMAIN self
                  /\ lists[self.norm_history] = attempts_log[a].norm_history
\* construction completed with both buffers kept, the first attempt retained,
\* and a second attempt that recorded other contents and was not retained
C16_Witness ==
    /\ pc = "done"
    /\ self.save_history /\ self.save_norm_history
    /\ Len(attempts_log) = 2
    /\ dt.best_results = attempts_log[1].results
    /\ Len(attempts_log[1].norm_history) >= 2
    /\ attempts_log[2].norm_history # attempts_log[1].norm_history
    /\ attempts_log[2].history # attempts_log[1].history
    /\ Len(lists[self.best_history]) = Len(lists[self.norm_history]) + 1

\* a zero denominator of the current attempt has put inf or NaN into a factor
Corrupted ==
    /\ HasFactors
    /\ den_zero
    /\ \/ HasNonFinite(Deref(heap, dt.R))
       \/ HasNonFinite(Deref(heap, dt.B))
       \/ HasNonFinite(Deref(heap, dt.C))
\* C17: an attempt whose updates met a zero denominator and left inf or NaN
\* in a factor does not abort the run: scoring it (lines 198-199) raises
\* nothing, so the remaining attempts run and the construction completes.
C17_DegeneracyDoesNotAbort ==
    Corrupted => ~(pc = "raised" /\ err.line \in {198, 199})

\* the winning factors as the constructed object exposes them
ExposedR == Deref(heap, self.R)
ExposedB == Deref(heap, self.B)
ExposedC == Deref(heap, self.C)
\* C18, as stated: the exposed pair is (row-basis, column-basis) with the
\* row-basis R.B of shape n x l and the column-basis (B.C)^T of shape m x k.
C18_RowBasisIsRB ==
    pc = "done" =>
        /\ self.basis_vectors[1] = MatMul(ExposedR, ExposedB)
        /\ self.basis_vectors[2] = Transpose(MatMul(ExposedB, ExposedC))
\* C18, amended: the exposed pair is (row_basis, col_basis) where row_basis
\* is (B.C)^T of shape m x k and col_basis is R.B of shape n x l, both
\* computed from the winning factors.
C18_RowBasisIsBCT ==
    pc = "done" =>
        /\ self.R = dt.best_results[1]
        /\ self.B = dt.best_results[2]
        /\ self.C = dt.best_results[3]
        /\ self.basis_vectors[1] = Transpose(MatMul(ExposedB, ExposedC))
        /\ self.basis_vectors[1].nr = NCols /\ self.basis_vectors[1].nc = self.n_row_clusters
        /\ self.basis_vectors[2] = MatMul(ExposedR, ExposedB)
        /\ self.basis_vectors[2].nr = NRows /\ self.basis_vectors[2].nc = self.n_col_clusters
\* a completed construction on a matrix that is not square, with finite
\* factors, where the two members of the pair differ in shape
C18_Witness ==
    /\ pc = "done"
    /\ NRows # NCols
    /\ self.n_row_clusters = 2
    /\ dt.attempt_no = 2
    /\ ~HasNonFinite(ExposedR) /\ ~HasNonFinite(ExposedB) /\ ~HasNonFinite(ExposedC)
    /\ self.basis_vectors[1].nr # self.basis_vectors[2].nr
    /\ \E p \in 1..Len(self.basis_vectors[2].d) : self.basis_vectors[2].d[p] > 0

\* C19: when the attempts of a run are interleaved, what is retained comes
\* from one attempt: the factors, the norm, the iteration count and the
\* history buffers are those of the attempt whose results hold the slot.
C19_RetainedFromOneAttempt ==
    \A a \in 1..Len(attempts_log) :
        dt.best_results = attempts_log[a].results =>
            /\ dt.best_norm = attempts_log[a].norm
            /\ dt.best_iter = attempts_log[a].iter
            /\ self.save_history => lists[self.best_history] = attempts_log[a].history
            /\ self.save_norm_history =>
                  lists[self.norm_history] = attempts_log[a].norm_history

\* C20: no step of the construction (initialisation, the updates of every
\* attempt, scoring, labelling, association, centroids) changes the values
\* of the caller's data or of Z, and Z holds the values of the caller's data.
C20_InputNeverModified ==
    [][/\ heap'[1] = heap[1]
       /\ ("Z" \in DOMAIN self /\ "Z" \in DOMAIN self') =>
             Deref(heap', self'.Z) = Deref(heap, self.Z)
       /\ "Z" \in DOMAIN self' => Deref(heap', self'.Z) = heap'[1]]_vars
\* a construction that completed after two attempts and at least two
\* updates of the retained one, with Z still the matrix that was supplied
C20_Witness ==
    /\ pc = "done"
    /\ dt.attempt_no = 2
    /\ dt.best_iter >= 2
    /\ ~self.symmetric
    /\ Deref(heap, self.Z) = heap[1]
    /\ Deref(heap, self.R) # Deref(heap, self.Z)

\* C21: get_labels_bicluster called with the fancy method and without B
\* raises the Exception of line 83, before any adherence or label is
\* computed: the call returns no labels and no masks.
C21_FancyWithoutBRaises ==
    (pc = "ret" /\ call.fn = "get_labels_bicluster" /\ MissingB(call.method, call.args.B)) =>
        ret = Raised("Exception", 83)
\* such a call has ended, for factors whose shapes the fancy method accepts
C21_Witness ==
    /\ pc = "ret"
    /\ call.fn = "get_labels_bicluster"
    /\ call.method = "fancy"
    /\ call.args.B = None
    /\ call.args.R.nc = 2 /\ call.args.C.nr = 2
    /\ ret.status = "raised"

\* the three quotients of lines 143-145, each for the operand values given
QuotientR(Zv, Rv, Bv, Cv) == EwDiv(NumR(Zv, Rv, Bv, Cv), DenR(Zv, Rv, Bv, Cv))
QuotientB(Zv, Rv, Bv, Cv) == EwDiv(NumB(Zv, Rv, Bv, Cv), DenB(Zv, Rv, Bv, Cv))
QuotientC(Zv, Rv, Bv, Cv) == EwDiv(NumC(Zv, Rv, Bv, Cv), DenC(Zv, Rv, Bv, Cv))
\* R, B, C after one step from R0, B0, C0: R from (R0, B0, C0), then B from
\* (the new R, B0, C0), then C from (the new R, the new B, C0)
AfterC(Zv, R1, B1, C0) == <<R1, B1, QuotientC(Zv, R1, B1, C0)>>
AfterB(Zv, R1, B0, C0) == AfterC(Zv, R1, QuotientB(Zv, R1, B0, C0), C0)
SequentialStep(Zv, R0, B0, C0) == AfterB(Zv, QuotientR(Zv, R0, B0, C0), B0, C0)
\* C22: an asymmetric update step leaves R, B, C equal to the sequential
\* composition of the R, B and C updates: R from the previous B and C, B from
\* the new R and the previous C, C from the new R and the new B.
C22_UpdatesInOrderRBC ==
    [][(pc = "while_iter" /\ pc' = "while_iter" /\ ac'.i = ac.i + 1 /\ ~self.symmetric) =>
          Copies(heap', dt) =
              SequentialStep(Z, Deref(heap, dt.R), Deref(heap, dt.B), Deref(heap, dt.C))]_vars
\* an asymmetric attempt after two updates with finite, non-zero factors
C22_Witness ==
    /\ pc = "while_iter"
    /\ ~self.symmetric
    /\ ac.i = 2
    /\ self.n_row_clusters = 2 /\ self.n_col_clusters = 2
    /\ ~den_zero /\ ~non_finite
    /\ \A p \in 1..Len(Deref(heap, dt.B).d) : Deref(heap, dt.B).d[p] > 0
    /\ IsFin(ac.current_norm)

\* the buffers the running attempt appends to
CurrentHistory == lists[self.current_history]
CurrentNormHistory == lists[self.current_norm_history]
\* the running attempt is in its loop or has just left it
InAttempt == pc \in {"while_iter", "scoring"}
\* C23: with history retention enabled, an attempt that has made i updates
\* has recorded i+1 snapshots and (with norm-history enabled) i norms; the
\* snapshot recorded last holds the current factor values (the initial ones
\* when i = 0), and an update leaves every snapshot and norm recorded before
\* it as it was.
C23_SnapshotsPerUpdate ==
    [][/\ (InAttempt' /\ self'.save_history) =>
             /\ Len(CurrentHistory') = ac'.i + 1
             /\ CurrentHistory'[ac'.i + 1] = Copies(heap', dt')
       /\ (InAttempt' /\ self'.save_norm_history) =>
             /\ Len(CurrentNormHistory') = ac'.i
             /\ CurrentNormHistory' = norm_trace'
       /\ (InAttempt /\ InAttempt' /\ self.save_history) =>
             \A j \in 1..Len(CurrentHistory) : CurrentHistory'[j] = CurrentHistory[j]
       /\ (InAttempt /\ InAttempt' /\ self.save_norm_history) =>
             \A j \in 1..Len(CurrentNormHistory) :
                 CurrentNormHistory'[j] = CurrentNormHistory[j]]_vars
\* an attempt with both buffers kept has made two updates, each of which
\* changed the factors
C23_Witness ==
    /\ pc = "scoring"
    /\ self.save_history /\ self.save_norm_history
    /\ ac.i = 2
    /\ Len(CurrentHistory) = 3
    /\ CurrentHistory[1] # CurrentHistory[2]
    /\ CurrentHistory[2] # CurrentHistory[3]
    /\ Len(CurrentNormHistory) = 2

\* C24: for every B with finite entries, every row of the matrix that
\* get_cluster_assoc returns has at least one true entry.
C24_EveryRowAssociated ==
    (AssocReturned /\ ~HasNonFinite(call.args.B)) =>
        \A i \in 1..call.args.B.nr : \E j \in 1..call.args.B.nc : At(ret.value, i, j)

\* max(1, iter_max)
UpdateLimit == IF self.iter_max > 1 THEN self.iter_max ELSE 1
\* every norm of the sequence is <= the one before it (the first: +inf)
RECURSIVE NeverIncreasedFrom(_, _, _)
NeverIncreasedFrom(norms, j, before) ==
    \/ j > Len(norms)
    \/ FLe(norms[j], before) /\ NeverIncreasedFrom(norms, j + 1, norms[j])
\* the updates made by the attempts that have returned
RECURSIVE UpdatesFrom(_, _)
UpdatesFrom(log, a) == IF a > Len(log) THEN 0 ELSE log[a].iter + UpdatesFrom(log, a + 1)
\* the updates made so far in this construction
UpdatesSoFar ==
    UpdatesFrom(attempts_log, 1) + (IF dt.attempt_no = Len(attempts_log) /\ pc # "post_init"
                                       /\ pc # "while_attempts" /\ pc # "returned"
                                       /\ pc # "done" /\ dt.R # NoRef
                                    THEN ac.i ELSE 0)
\* what C25 says of every state of a construction
UpdatesBounded ==
    /\ pc \in {"while_iter", "scoring"} => ac.i <= UpdateLimit
    /\ \A a \in Attempts :
          /\ attempts_log[a].iter <= UpdateLimit
          /\ (self.iter_max >= 1 /\ NeverIncreasedFrom(attempts_log[a].norm_history, 1, PInf)) =>
                attempts_log[a].iter = self.iter_max
          /\ \A b \in Attempts :
                a # b => attempts_log[a].results[1].id # attempts_log[b].results[1].id
    /\ Len(attempts_log) <= self.n_attempts
    /\ pc \in {"returned", "done"} => Len(attempts_log) = self.n_attempts
    /\ UpdatesSoFar <= self.n_attempts * UpdateLimit
\* the steps one attempt takes at most: the entry, the updates, the exit of
\* the loop and the scoring
AttemptSteps == UpdateLimit + 3
\* the attempts still to be started
AttemptsToStart(started) ==
    IF self.n_attempts > started THEN self.n_attempts - started ELSE 0
\* a bound on the steps the construction can still take
StepsLeft ==
    IF pc = "post_init" THEN 3 + AttemptsToStart(0) * AttemptSteps
    ELSE IF pc = "while_attempts" THEN 2 + AttemptsToStart(dt.attempt_no) * AttemptSteps
    ELSE IF pc = "while_iter"
    THEN 2 + AttemptsToStart(dt.attempt_no + 1) * AttemptSteps + (UpdateLimit - ac.i) + 2
    ELSE IF pc = "scoring" THEN 2 + AttemptsToStart(dt.attempt_no + 1) * AttemptSteps + 1
    ELSE IF pc = "returned" THEN 1
    ELSE 0
NormOf(Zv, Rv, Bv, Cv) == FroNorm(EwSub(MatMul3(Rv, Bv, Cv), Zv))
\* C26: what an attempt returns is what its last update left: the norm is
\* the last norm computed and is the reconstruction norm of the returned
\* factors, also when the attempt stopped because that norm exceeded the one
\* before it.
C26_ReturnsLastUpdate ==
    /\ pc = "scoring" =>
          /\ ac.current_norm = norm_trace[Len(norm_trace)]
          /\ ac.current_norm =
                NormOf(Z, Deref(heap, dt.R), Deref(heap, dt.B), Deref(heap, dt.C))
    /\ \A a \in Attempts :
          /\ attempts_log[a].norm =
                attempts_log[a].norm_history[Len(attempts_log[a].norm_history)]
          /\ attempts_log[a].norm =
                NormOf(Z, attempts_log[a].R, attempts_log[a].B, attempts_log[a].C)
\* an attempt that stopped on a norm increase has returned, and was
\* retained, with a norm greater than an earlier norm of the same attempt
C26_Witness ==
    /\ pc = "while_attempts"
    /\ \E a \in Attempts :
          /\ dt.best_results = attempts_log[a].results
          /\ dt.best_norm = attempts_log[a].norm
          /\ attempts_log[a].iter < self.iter_max
          /\ \E j \in 1..Len(attempts_log[a].norm_history) :
                FGt(attempts_log[a].norm, attempts_log[a].norm_history[j])

\* the values held by the arrays of a results tuple
ValuesOf(h, results) ==
    <<Deref(h, results[1]), Deref(h, results[2]), Deref(h, results[3])>>
\* the arrays the factors of a results tuple live in
ArraysOf(results) == {results[1].id, results[2].id, results[3].id}
\* a later attempt begins: line 178 is passed with an attempt retained
LaterAttemptBegins ==
    pc = "while_attempts" /\ pc' = "while_iter" /\ dt.best_results # <<>>
\* C27: while an attempt stays retained as best, no step changes the values
\* of its factors R, B, C: they are the values it returned; a later attempt
\* starts from arrays that did not exist before it and that are not the
\* retained ones, and its updates write to those arrays only.
C27_RetainedFactorsUntouched ==
    /\ [](\A a \in Attempts :
             dt.best_results = attempts_log[a].results =>
                ValuesOf(heap, dt.best_results) =
                   <<attempts_log[a].R, attempts_log[a].B, attempts_log[a].C>>)
    /\ [][/\ (dt.best_results # <<>> /\ dt'.best_results = dt.best_results) =>
                ValuesOf(heap', dt.best_results) = ValuesOf(heap, dt.best_results)
          /\ LaterAttemptBegins =>
                /\ ArraysOf(<<dt'.R, dt'.B, dt'.C>>) \cap (1..Len(heap)) = {}
                /\ ArraysOf(<<dt'.R, dt'.B, dt'.C>>) \cap ArraysOf(dt.best_results) = {}
          /\ (pc = "while_iter" /\ dt.best_results # <<>>) =>
                \A id \in (1..Len(heap)) \ ArraysOf(<<dt.R, dt.B, dt.C>>) :
                   heap'[id] = heap[id]]_vars
\* the first attempt stayed retained while a second attempt, with other
\* factor values, made its updates and was scored
C27_Witness ==
    /\ pc = "done"
    /\ Len(attempts_log) = 2
    /\ dt.best_results = attempts_log[1].results
    /\ attempts_log[2].iter >= 2
    /\ attempts_log[2].R # attempts_log[1].R
    /\ attempts_log[2].results # attempts_log[1].results

\* the attempt's mean silhouette compares greater than minus infinity
AboveEmpty(a) == FGt(MeanOf(attempts_log[a].sil), NInf)
\* no R, B, C (nor anything derived from them) is set on the object
NoModelExposed ==
    {"R", "B", "C", "basis_vectors", "row_labels_", "cluster_assoc"} \cap DOMAIN self = {}
\* the unpacking of line 231 failed
UnpackingFailed == pc = "raised" /\ err = Raise("TypeError", 231)
\* C28: the best-so-far slot is empty (mean silhouette -inf, no factors,
\* norm +inf, iteration count 0) until an attempt is scored, and it is
\* filled only with an attempt whose mean silhouette compares greater than
\* -inf; a mean of NaN or -inf does not compare greater than the empty
\* slot's.  When do_things returns with the slot still empty, as it does
\* with n_attempts <= 0, the constructor raises at the unpacking of line 231
\* and exposes no R, B, C; a model is exposed only from a filled slot.
C28_EmptySlotFailsUnpacking ==
    /\ [](/\ attempts_log = <<>> => SlotEmpty
          /\ ~SlotEmpty => \E a \in Attempts : SlotIs(a) /\ AboveEmpty(a)
          /\ \A s \in {NaN, NInf}, t \in SilScores \cup {NaN, NInf} :
                ~IsBest(<<s, s>>, DtInit.best_sil) /\ ~IsBest(<<NaN, t>>, DtInit.best_sil)
          /\ self.n_attempts <= 0 => SlotEmpty /\ pc # "done" /\ NoModelExposed
          /\ pc = "done" => ~SlotEmpty
          /\ UnpackingFailed =>
                SlotEmpty /\ NoModelExposed /\ \A a \in Attempts : ~AboveEmpty(a))
    /\ [][(pc = "returned" /\ SlotEmpty) => UnpackingFailed']_vars
\* a construction with no attempts returned nothing from do_things and
\* failed at line 231
C28_Witness ==
    /\ UnpackingFailed
    /\ self.n_attempts = 0
    /\ self.iter_max > 0
    /\ SlotEmpty
    /\ self.best_norm = PInf
    /\ self.best_iter = 0

Next ==
    \/ PostInit
    \/ InitFactors
    \/ Iterate
    \/ ExitLoop
    \/ Score
    \/ Return
    \/ Finish

Spec == Init /\ [][Next]_vars

(* ------------- the attempts of one run, run interleaved -------------- *)
\* The attempts of do_things as threads over the one object: each has its
\* own locals (R, B, C, i, the two norms); the object's attributes, the
\* generator, the buffers and the best-so-far slot are the ones of the run.
\* The comparison with the best so far (lines 204-212) is one atomic step.
\* trace and hist are ghosts: the norms and copies the attempt computed.
ReadyThread == [pc |-> "ready", R |-> NoRef, B |-> NoRef, C |-> NoRef, i |-> 0,
                previous_norm |-> PInf, current_norm |-> PInf, trace |-> <<>>, hist |-> <<>>]

\* lines 178-179, for every attempt_no at once
Fork ==
    /\ pc = "while_attempts"
    /\ th = <<>>
    /\ dt.attempt_no = 0
    /\ th' = [t \in 1..self.n_attempts |-> ReadyThread]
    /\ pc' = "par"
    /\ UNCHANGED <<self, heap, lists, rng, err, dt, ac, norm_trace, den_zero, non_finite,
                   attempts_log, sil_memo, call, ret, prior>>

\* lines 181 and 152-158 for attempt t
ParAllocated(t, Rnew, Bnew, Cnew, idR) ==
    /\ heap' = heap \o <<Rnew, Bnew, Cnew>>
    /\ rng' = rng + Len(Rnew.d) + Len(Cnew.d)
    /\ th' = [th EXCEPT ![t] = [@ EXCEPT !.pc = "loop", !.R = Ref(idR, FALSE),
                                         !.B = Ref(idR + 1, FALSE), !.C = Ref(idR + 2, FALSE),
                                         !.hist = <<<<Rnew, Bnew, Cnew>>>>]]
    /\ Recording(HistoryStarted(self, lists, <<Rnew, Bnew, Cnew>>))

\* lines 181-189 and 152-158: attempt t draws its factors from the run's
\* generator and binds the object's current buffers
ParStart(t) ==
    /\ pc = "par"
    /\ th[t].pc = "ready"
    /\ ParAllocated(t, RngRandom(self.random_state, rng, ShapeN, self.n_row_clusters),
                    EwMul(Full(1, 1, MeanAll(Z)),
                          OnesM(self.n_row_clusters, self.n_col_clusters)),
                    RngRandom(self.random_state, rng + ShapeN * self.n_row_clusters,
                              self.n_col_clusters, ShapeM),
                    Len(heap) + 1)
    /\ UNCHANGED <<pc, err, dt, ac, norm_trace, den_zero, non_finite, attempts_log, sil_memo,
                   call, ret, prior>>

\* lines 163-169 for attempt t, the norm of line 164 and the copies of line 168
ParAdvanced(t, nrm, snap) ==
    /\ th' = [th EXCEPT ![t] = [@ EXCEPT !.i = @ + 1, !.previous_norm = th[t].current_norm,
                                         !.current_norm = nrm, !.trace = Append(@, nrm),
                                         !.hist = Append(@, snap)]]
    /\ lists' = RecordedFactors(self, RecordedNorm(self, lists, nrm), snap)
    /\ UNCHANGED <<pc, err>>

\* lines 161-169 for attempt t and the outcome u of attempt_coclustering_aux
ParIterated(t, u) ==
    /\ heap' = u.h
    /\ IF ~u.ok
       THEN /\ pc' = "raised"
            /\ err' = Raise("ValueError", u.line)
            /\ UNCHANGED <<th, lists>>
       ELSE ParAdvanced(t, ReconNorm(u.h, self.Z, th[t].R, th[t].B, th[t].C),
                        Copies(u.h, th[t]))

\* lines 160-169: one pass of the loop body of attempt t
ParIterate(t) ==
    /\ pc = "par"
    /\ th[t].pc = "loop"
    /\ LoopCond(th[t].i, self.iter_max, th[t].current_norm, th[t].previous_norm)
    /\ ParIterated(t, attempt_coclustering_aux(heap, self.Z, th[t].R, th[t].B, th[t].C,
                                               self.symmetric))
    /\ UNCHANGED <<self, rng, dt, ac, norm_trace, den_zero, non_finite, attempts_log, sil_memo,
                   call, ret, prior>>

\* lines 200-212 for attempt t with the scores sil
ParCompared(t, sil, memo) ==
    /\ self' = Kept(self, IsBest(sil, dt.best_sil))
    /\ dt' = [Selected(dt, <<th[t].R, th[t].B, th[t].C>>, th[t].current_norm, th[t].i, sil)
                EXCEPT !.attempt_no = dt.attempt_no + 1]
    /\ attempts_log' = Append(attempts_log,
                              [results |-> <<th[t].R, th[t].B, th[t].C>>,
                               norm |-> th[t].current_norm, iter |-> th[t].i, sil |-> sil,
                               history |-> th[t].hist, norm_history |-> th[t].trace])
    /\ sil_memo' = memo
    /\ th' = [th EXCEPT ![t] = [@ EXCEPT !.pc = "joined"]]
    /\ UNCHANGED <<pc, err>>

\* the exception of line ln leaves do_things
ParRaised(ln) ==
    /\ pc' = "raised"
    /\ err' = Raise("ValueError", ln)
    /\ UNCHANGED <<self, dt, attempts_log, sil_memo, th>>

\* line 199 and on for attempt t
ParScoredCols(t, lab, sil_row, memo, ckey) ==
    \E sil_col \in SilChoices(memo, ckey) :
        ParCompared(t, <<sil_row, sil_col>>, Memoize(memo, ckey, sil_col))

\* lines 197-212 for attempt t and the outcome lab of get_labels_bicluster
ParScored(t, lab) ==
    IF ~lab.ok THEN ParRaised(lab.line)
    ELSE IF ~SilhouetteDefined(lab.row) THEN ParRaised(198)
    ELSE IF ~SilhouetteDefined(lab.col) THEN ParRaised(199)
    ELSE \E sil_row \in SilChoices(sil_memo, <<"rows", lab.row>>) :
           ParScoredCols(t, lab, sil_row, Memoize(sil_memo, <<"rows", lab.row>>, sil_row),
                         <<"cols", lab.col>>)

\* lines 160, 171 and 196-212: the loop of attempt t ends, the attempt is
\* scored and compared with the best so far
ParScore(t) ==
    /\ pc = "par"
    /\ th[t].pc = "loop"
    /\ ~LoopCond(th[t].i, self.iter_max, th[t].current_norm, th[t].previous_norm)
    /\ ParScored(t, get_labels_bicluster(Deref(heap, th[t].R), Deref(heap, th[t].C),
                                         Deref(heap, th[t].B)))
    /\ UNCHANGED <<heap, lists, rng, ac, norm_trace, den_zero, non_finite, call, ret, prior>>

\* line 178: every attempt has been counted
Join ==
    /\ pc = "par"
    /\ \A t \in DOMAIN th : th[t].pc = "joined"
    /\ pc' = "while_attempts"
    /\ UNCHANGED <<self, heap, lists, rng, err, dt, ac, norm_trace, den_zero, non_finite,
                   attempts_log, sil_memo, call, ret, prior, th>>

\* construction on a matrix that is not square
TallInit == InitWith({ZTall}, 1..MaxK, {<<FALSE, FALSE>>})
TallSpec == TallInit /\ [][Next]_vars

\* construction with history retention enabled
HistInit ==
    InitWith({ZAsym, ZNeg}, 1..MaxK, {<<TRUE, TRUE>>, <<TRUE, FALSE>>, <<FALSE, TRUE>>})
HistSpec == HistInit /\ [][Next]_vars

\* a run of two attempts with norm-history retention enabled
ParInit ==
    /\ InitWith({ZAsym, ZNeg}, {2}, {<<TRUE, TRUE>>, <<FALSE, TRUE>>})
    /\ self.n_attempts = 2
    /\ ~self.symmetric
ParNext ==
    \/ PostInit
    \/ Fork
    \/ \E t \in DOMAIN th : ParStart(t)
    \/ \E t \in DOMAIN th : ParIterate(t)
    \/ \E t \in DOMAIN th : ParScore(t)
    \/ Join
    \/ Return
    \/ Finish
ParSpec == ParInit /\ [][ParNext]_vars

TwinNext ==
    \/ Next
    \/ Again

TwinSpec == TwinInit /\ [][TwinNext]_vars
====
